---- MODULE Spec2Model ----
(***************************************************************************)
(* Karantiger/VideoConferenceMeeting: the room page                        *)
(* (src/app/room/[roomid]/page.tsx) and the home page (src/app/page.tsx).  *)
(*                                                                         *)
(* The room page is a React function component.  Its state is the two      *)
(* useState cells (connectionError, retryCount), the widget reference      *)
(* zegoRef, the timers it has started with setTimeout, and the widget      *)
(* instances of the embedded SDK that were created and not yet destroyed.  *)
(* Every handler the SDK, a timer or the user can run is one action.  A    *)
(* handler that changes retryCount changes the identity of                 *)
(* initializeMeeting (retryCount is one of its useCallback dependencies),  *)
(* so React re-runs the mount effect when it commits the update: the       *)
(* effect's cleanup and its body are part of that handler's action.        *)
(*                                                                         *)
(* Every widget instance carries the retryCount its callbacks closed over  *)
(* (the render in which the initializeMeeting that created it was built);  *)
(* every retry timer carries the retryCount of the initializeMeeting it    *)
(* will call.                                                              *)
(*                                                                         *)
(* The SDK is opaque: generateKitTokenForTest, create and joinRoom are     *)
(* taken to return normally, and only an instance that was joined and not  *)
(* destroyed calls the handlers given to joinRoom.  The room identifier,   *)
(* the user name and process.env do not change while the page is open.     *)
(***************************************************************************)
EXTENDS Integers, Sequences, FiniteSets, TLC

(* ----------------------------- bounds --------------------------------- *)
\* number of onNetworkStatusError callbacks the SDK delivers in one run
MaxNetErrors == 4
\* number of times the user presses the Retry button in one run
MaxClicks == 1

(* --------------------------- constants -------------------------------- *)
MAX_RETRIES == 3

Null == "<null>"
Undefined == "<undefined>"
NoWidget == 0

NoRoomMsg == "No room ID provided"
FailedMsg == "Failed to initialize meeting. Please try again."
NetMsg == "Network connection error. Attempting to reconnect..."
MaxMsg == "Maximum retry attempts reached. Please check your network."
DeviceMsg(message) == "Device error: " \o message

\* values the URL can carry: searchParams.get('roomID') and params.roomid
QueryValues == {Null, "", "q1"}
RouteValues == {Undefined, "", "r1"}
\* process.env values: absent, or a string given as its characters
NoEnv == [def |-> FALSE, chars |-> <<>>]
Env(s) == [def |-> TRUE, chars |-> s]
AppIdEnvs == {NoEnv, Env(<<>>), Env(<<"x", "7">>), Env(<<" ", "7", "x">>)}
SecretEnvs == {NoEnv, Env(<<>>), Env(<<"s">>)}
\* what the user can type on the home page, and what uuid() can return
Names == {"", "Al", "Ali", "Alice"}
RoomIds == {"", "r", "a/b", "x y"}
Uuids == {"u-1", "u-2"}
ConnectionStates == {"CONNECTED", "CONNECTING", "DISCONNECTED"}
DeviceMessages == {"", "camera"}

VARIABLES
    phase,            \* "off" | "init" | "mounted" | "unmounted" | "unloaded"
    queryRoomID,      \* searchParams.get('roomID')
    routeRoomid,      \* paramsValue?.roomid
    appIdEnv,         \* process.env.NEXT_PUBLIC_ZEGO_APP_ID
    secretEnv,        \* process.env.NEXT_PUBLIC_ZEGO_SERVER_SECRET
    zegoRef,          \* zegoRef.current: a widget id, or NoWidget
    widgets,          \* the instances created and not destroyed: id -> record
    created,          \* number of ZegoUIKitPrebuilt.create calls so far
    joinCalls,        \* number of joinRoom calls so far
    connectionError,  \* useState<string | null>
    retryCount,       \* useState<number>
    retryTimers,      \* pending RETRY_DELAY timers, oldest first
    redirectTimer,    \* a LEAVE_REDIRECT_DELAY timer is pending
    netErrors,        \* onNetworkStatusError callbacks delivered
    clicks,           \* Retry presses
    scheduled,        \* retry timers started since the last CONNECTED
    ev,               \* the handler that ran last
    \* the home page (src/app/page.tsx)
    homePhase,        \* "off" | "init" | "mounted" | "navigated"
    fullName,         \* useUser().fullName
    roomIdInput,      \* useState("") of the room-id input
    isPending,        \* useTransition
    pushes            \* the paths given to router.push, oldest first

roomVars == <<phase, queryRoomID, routeRoomid, appIdEnv, secretEnv, zegoRef,
              widgets, created, joinCalls, connectionError, retryCount,
              retryTimers, redirectTimer, netErrors, clicks, scheduled, ev>>

homeVars == <<homePhase, fullName, roomIdInput, isPending, pushes>>

vars == <<roomVars, homeVars>>

(* ------------------------- JavaScript helpers ------------------------- *)
\* truthiness of a string | null | undefined
Truthy(s) == s \notin {Null, Undefined, ""}

\* a || b
Or(a, b) == IF Truthy(a) THEN a ELSE b

\* String(v) as parseInt applies it to its argument
StringOf(v) == IF v.def THEN v.chars ELSE <<"u", "n", "d", "e", "f", "i", "n", "e", "d">>

Digits == {"0", "1", "2", "3", "4", "5", "6", "7", "8", "9"}
DigitVal(c) == CASE c = "0" -> 0 [] c = "1" -> 1 [] c = "2" -> 2 [] c = "3" -> 3
                 [] c = "4" -> 4 [] c = "5" -> 5 [] c = "6" -> 6 [] c = "7" -> 7
                 [] c = "8" -> 8 [] c = "9" -> 9

RECURSIVE SkipSpace(_)
SkipSpace(s) == IF s # <<>> /\ Head(s) = " " THEN SkipSpace(Tail(s)) ELSE s

RECURSIVE ReadDigits(_, _)
ReadDigits(s, acc) ==
    IF s # <<>> /\ Head(s) \in Digits
    THEN ReadDigits(Tail(s), acc * 10 + DigitVal(Head(s)))
    ELSE acc

NaN == [nan |-> TRUE, val |-> 0]
\* parseInt(string): leading blanks, an optional sign, then the longest run
\* of decimal digits; NaN when there is no digit
parseInt(str) ==
    LET t == SkipSpace(str)
        neg == t # <<>> /\ Head(t) = "-"
        u == IF t # <<>> /\ Head(t) \in {"-", "+"} THEN Tail(t) ELSE t
    IN  IF u = <<>> \/ Head(u) \notin Digits THEN NaN
        ELSE [nan |-> FALSE,
              val |-> IF neg THEN 0 - ReadDigits(u, 0) ELSE ReadDigits(u, 0)]

isNaN(n) == n.nan

(* ------------------------------ render -------------------------------- *)
roomId == Or(queryRoomID, routeRoomid)

\* what Room returns
RoomView == IF ~Truthy(roomId) THEN "NoRoomIdView" ELSE "CallContainer"

\* myCallContainerRef.current is the div of the call container, while it is
\* in the document
ContainerMounted == phase = "mounted" /\ RoomView = "CallContainer"

\* the banner with the Retry button
RetryShown == phase = "mounted" /\ RoomView = "CallContainer" /\ Truthy(connectionError)

(* --------------------- the component's functions ---------------------- *)
\* The part of the state the functions below read and write.
Heap == [ref |-> zegoRef, widgets |-> widgets, created |-> created,
         joins |-> joinCalls, err |-> connectionError]

Remove(f, id) == [i \in DOMAIN f \ {id} |-> f[i]]
Put(f, id, v) == [i \in DOMAIN f \cup {id} |-> IF i = id THEN v ELSE f[i]]

\* cleanupMedia that clears the reference and leaves the instance running
cleanupMedia_NoDestroy(h) == [h EXCEPT !.ref = NoWidget]

\* lines 60-63; stopping the media tracks of the document changes nothing
\* the component reads
cleanupMedia(h) ==
    IF h.ref # NoWidget
    THEN [h EXCEPT !.widgets = Remove(@, h.ref), !.ref = NoWidget]
    ELSE h

\* create and joinRoom (lines 88-143): the new instance's callbacks close
\* over the retryCount c
createAndJoin(h, c, container, appID) ==
    LET id == h.created + 1 IN
    [h EXCEPT !.ref = id,
              !.created = id,
              !.widgets = Put(@, id, [rc |-> c, appID |-> appID,
                                      joined |-> container, connected |-> FALSE]),
              !.joins = IF container THEN @ + 1 ELSE @]

\* the try block without the check of the server secret
tryInitialize_NoSecretCheck(h, c, container) ==
    LET appID == parseInt(StringOf(appIdEnv)) IN
    IF isNaN(appID)
    THEN [h EXCEPT !.err = FailedMsg]
    ELSE createAndJoin(h, c, container, appID.val)

\* the try block and its catch (lines 79-147)
tryInitialize(h, c, container) ==
    LET appID == parseInt(StringOf(appIdEnv)) IN
    IF isNaN(appID) \/ ~(secretEnv.def /\ secretEnv.chars # <<>>)
    THEN [h EXCEPT !.err = FailedMsg]
    ELSE createAndJoin(h, c, container, appID.val)

\* initializeMeeting without the check of the room identifier
initializeMeeting_NoRoomCheck(h, c, container) == tryInitialize(h, c, container)

\* c is the retryCount of the render this initializeMeeting belongs to;
\* container is whether myCallContainerRef.current is set
initializeMeeting(h, c, container) ==
    IF ~Truthy(roomId)
    THEN [h EXCEPT !.err = NoRoomMsg]
    ELSE tryInitialize(h, c, container)

\* React commits the handler's state updates: when retryCount changed,
\* initializeMeeting is a new function, the effect's cleanup runs and the
\* effect runs again with the new function.
Commit(h, rc) ==
    IF phase = "mounted" /\ rc # retryCount
    THEN initializeMeeting(cleanupMedia(h), rc, ContainerMounted)
    ELSE h

Store(h) ==
    /\ zegoRef' = h.ref
    /\ widgets' = h.widgets
    /\ created' = h.created
    /\ joinCalls' = h.joins
    /\ connectionError' = h.err

(* ------------------------------ Init ---------------------------------- *)
HomeOff ==
    /\ homePhase = "off"
    /\ fullName = ""
    /\ roomIdInput = ""
    /\ isPending = FALSE
    /\ pushes = <<>>

Init ==
    /\ HomeOff
    /\ phase = "init"
    /\ queryRoomID \in QueryValues
    /\ routeRoomid \in RouteValues
    /\ appIdEnv \in AppIdEnvs
    /\ secretEnv \in SecretEnvs
    /\ zegoRef = NoWidget
    /\ widgets = [i \in {} |-> 0]
    /\ created = 0
    /\ joinCalls = 0
    /\ connectionError = Null
    /\ retryCount = 0
    /\ retryTimers = <<>>
    /\ redirectTimer = FALSE
    /\ netErrors = 0
    /\ clicks = 0
    /\ scheduled = 0
    /\ ev = [op |-> "none", w |-> NoWidget, arg |-> ""]

inputs == <<queryRoomID, routeRoomid, appIdEnv, secretEnv>>

\* a widget whose joinRoom handlers the SDK can call
Joined == {id \in DOMAIN widgets : widgets[id].joined}
Live == phase \in {"mounted", "unmounted"}

(* ----------------------------- actions -------------------------------- *)
\* first commit: the effect runs initializeMeeting
Mount ==
    /\ phase = "init"
    /\ phase' = "mounted"
    /\ Store(initializeMeeting(Heap, retryCount, RoomView = "CallContainer"))
    /\ ev' = [op |-> "mount", w |-> NoWidget, arg |-> ""]
    /\ UNCHANGED <<homeVars, inputs, retryCount, retryTimers, redirectTimer, netErrors,
                   clicks, scheduled>>

\* onNetworkStatusError of the widget id (lines 118-130), then the commit
onNetworkStatusError(id) ==
    /\ Live
    /\ id \in Joined
    /\ netErrors < MaxNetErrors
    /\ LET c == widgets[id].rc
           retry == c < MAX_RETRIES
           rc == IF retry THEN retryCount + 1 ELSE retryCount
           h == [Heap EXCEPT !.err = IF retry THEN NetMsg ELSE MaxMsg]
       IN  /\ retryCount' = rc
           /\ retryTimers' = IF retry THEN Append(retryTimers, c) ELSE retryTimers
           /\ scheduled' = IF retry THEN scheduled + 1 ELSE scheduled
           /\ Store(Commit(h, rc))
    /\ netErrors' = netErrors + 1
    /\ ev' = [op |-> "onNetworkStatusError", w |-> id, arg |-> ""]
    /\ UNCHANGED <<homeVars, inputs, phase, redirectTimer, clicks>>

\* a handler that clears the message and forgets the count
ConnectedCount_NoReset(state, rc) == rc

\* the retryCount onConnectionStateChanged leaves (lines 132-135)
ConnectedCount(state, rc) == IF state = "CONNECTED" THEN 0 ELSE rc

\* the message onConnectionStateChanged leaves (lines 132-135)
ConnectedError(state, err) == IF state = "CONNECTED" THEN Null ELSE err

onConnectionStateChanged(id, state) ==
    /\ Live
    /\ id \in Joined
    /\ LET rc == ConnectedCount(state, retryCount)
           h == [Heap EXCEPT !.err = ConnectedError(state, @),
                             !.widgets[id].connected = @ \/ state = "CONNECTED"]
       IN  /\ retryCount' = rc
           /\ Store(Commit(h, rc))
    /\ scheduled' = IF state = "CONNECTED" THEN 0 ELSE scheduled
    /\ ev' = [op |-> "onConnectionStateChanged", w |-> id, arg |-> state]
    /\ UNCHANGED <<homeVars, inputs, phase, retryTimers, redirectTimer, netErrors, clicks>>

onDeviceError(id, message) ==
    /\ Live
    /\ id \in Joined
    /\ Store([Heap EXCEPT !.err = DeviceMsg(message)])
    /\ ev' = [op |-> "onDeviceError", w |-> id, arg |-> message]
    /\ UNCHANGED <<homeVars, inputs, phase, retryCount, retryTimers, redirectTimer,
                   netErrors, clicks, scheduled>>

\* onLeaveRoom: handleLeaveRoom (lines 66-71)
handleLeaveRoom(id) ==
    /\ Live
    /\ id \in Joined
    /\ Store(cleanupMedia(Heap))
    /\ redirectTimer' = TRUE
    /\ ev' = [op |-> "onLeaveRoom", w |-> id, arg |-> ""]
    /\ UNCHANGED <<homeVars, inputs, phase, retryCount, retryTimers, netErrors, clicks,
                   scheduled>>

\* the oldest RETRY_DELAY timer fires (lines 123-126); its initializeMeeting
\* is the one of the render the handler that started it was built in
RetryTimerFires ==
    /\ Live
    /\ retryTimers # <<>>
    /\ Store(initializeMeeting(cleanupMedia(Heap), Head(retryTimers), ContainerMounted))
    /\ retryTimers' = Tail(retryTimers)
    /\ ev' = [op |-> "retryTimer", w |-> NoWidget, arg |-> ""]
    /\ UNCHANGED <<homeVars, inputs, phase, retryCount, redirectTimer, netErrors, clicks,
                   scheduled>>

\* a Retry that re-initializes without releasing the instance
RetryClick_NoCleanup ==
    /\ RetryShown
    /\ clicks < MaxClicks
    /\ Store(initializeMeeting([Heap EXCEPT !.err = Null], retryCount, ContainerMounted))
    /\ clicks' = clicks + 1
    /\ ev' = [op |-> "retryClick", w |-> NoWidget, arg |-> ""]
    /\ UNCHANGED <<homeVars, inputs, phase, retryCount, retryTimers, redirectTimer,
                   netErrors, scheduled>>

\* the Retry button's onClick (lines 180-184)
RetryClick ==
    /\ RetryShown
    /\ clicks < MaxClicks
    /\ Store(initializeMeeting(cleanupMedia([Heap EXCEPT !.err = Null]),
                               retryCount, ContainerMounted))
    /\ clicks' = clicks + 1
    /\ ev' = [op |-> "retryClick", w |-> NoWidget, arg |-> ""]
    /\ UNCHANGED <<homeVars, inputs, phase, retryCount, retryTimers, redirectTimer,
                   netErrors, scheduled>>

\* the component unmounts: the effect's cleanup (lines 153-155)
Unmount ==
    /\ phase = "mounted"
    /\ phase' = "unmounted"
    /\ Store(cleanupMedia(Heap))
    /\ ev' = [op |-> "unmount", w |-> NoWidget, arg |-> ""]
    /\ UNCHANGED <<homeVars, inputs, retryCount, retryTimers, redirectTimer, netErrors,
                   clicks, scheduled>>

\* the LEAVE_REDIRECT_DELAY timer fires: window.location.href = '/' loads a
\* new document, which ends every timer and every object of this one
Redirect ==
    /\ Live
    /\ redirectTimer
    /\ phase' = "unloaded"
    /\ zegoRef' = NoWidget
    /\ widgets' = [i \in {} |-> 0]
    /\ retryTimers' = <<>>
    /\ ev' = [op |-> "redirect", w |-> NoWidget, arg |-> ""]
    /\ UNCHANGED <<homeVars, inputs, created, joinCalls, connectionError, retryCount,
                   redirectTimer, netErrors, clicks, scheduled>>

Next ==
    \/ Mount
    \/ \E id \in DOMAIN widgets : onNetworkStatusError(id)
    \/ \E id \in DOMAIN widgets, state \in ConnectionStates : onConnectionStateChanged(id, state)
    \/ \E id \in DOMAIN widgets, message \in DeviceMessages : onDeviceError(id, message)
    \/ \E id \in DOMAIN widgets : handleLeaveRoom(id)
    \/ RetryTimerFires
    \/ RetryClick
    \/ Unmount
    \/ Redirect

Spec == Init /\ [][Next]_vars

(* ============================ home page ================================ *)
RoomOff ==
    /\ phase = "off"
    /\ queryRoomID = Null
    /\ routeRoomid = Undefined
    /\ appIdEnv = NoEnv
    /\ secretEnv = NoEnv
    /\ zegoRef = NoWidget
    /\ widgets = [i \in {} |-> 0]
    /\ created = 0
    /\ joinCalls = 0
    /\ connectionError = Null
    /\ retryCount = 0
    /\ retryTimers = <<>>
    /\ redirectTimer = FALSE
    /\ netErrors = 0
    /\ clicks = 0
    /\ scheduled = 0
    /\ ev = [op |-> "none", w |-> NoWidget, arg |-> ""]

\* the name store may hold a name from an earlier visit
HomeInit ==
    /\ RoomOff
    /\ homePhase = "init"
    /\ fullName \in Names
    /\ roomIdInput = ""
    /\ isPending = FALSE
    /\ pushes = <<>>

\* a gate that lets two characters through
ControlsShown_TwoChars == homePhase = "mounted" /\ Truthy(fullName) /\ Len(fullName) >= 2

\* the gate of the room controls (line 88)
ControlsShown == homePhase = "mounted" /\ Truthy(fullName) /\ Len(fullName) >= 3

isRoomIdValid == Len(roomIdInput) > 0

roomUnchanged == UNCHANGED <<phase, inputs, zegoRef, widgets, created, joinCalls,
                             connectionError, retryCount, retryTimers, redirectTimer,
                             netErrors, clicks, scheduled>>

\* first commit: the effect resets the name (lines 26-28)
HomeMount ==
    /\ homePhase = "init"
    /\ homePhase' = "mounted"
    /\ fullName' = ""
    /\ ev' = [op |-> "homeMount", w |-> NoWidget, arg |-> ""]
    /\ roomUnchanged
    /\ UNCHANGED <<roomIdInput, isPending, pushes>>

\* onChange of the name input (line 82)
NameChange(v) ==
    /\ homePhase = "mounted"
    /\ fullName' = v
    /\ ev' = [op |-> "nameChange", w |-> NoWidget, arg |-> v]
    /\ roomUnchanged
    /\ UNCHANGED <<homePhase, roomIdInput, isPending, pushes>>

\* onChange of the room-id input (line 96)
RoomIdChange(v) ==
    /\ ControlsShown
    /\ roomIdInput' = v
    /\ ev' = [op |-> "roomIdChange", w |-> NoWidget, arg |-> v]
    /\ roomUnchanged
    /\ UNCHANGED <<homePhase, fullName, isPending, pushes>>

\* a click on Connect, when the button is there and not disabled
handleConnect ==
    /\ ControlsShown
    /\ ~(~isRoomIdValid \/ isPending)
    /\ IF Truthy(roomIdInput)
       THEN /\ pushes' = Append(pushes, "/room/" \o roomIdInput)
            /\ isPending' = TRUE
       ELSE UNCHANGED <<pushes, isPending>>
    /\ ev' = [op |-> "handleConnect", w |-> NoWidget, arg |-> ""]
    /\ roomUnchanged
    /\ UNCHANGED <<homePhase, fullName, roomIdInput>>

\* a click on Create Room, when the button is there and not disabled
handleCreateRoom(newRoomId) ==
    /\ ControlsShown
    /\ ~isPending
    /\ pushes' = Append(pushes, "/room/" \o newRoomId)
    /\ isPending' = TRUE
    /\ ev' = [op |-> "handleCreateRoom", w |-> NoWidget, arg |-> newRoomId]
    /\ roomUnchanged
    /\ UNCHANGED <<homePhase, fullName, roomIdInput>>

\* the transition ends: the router shows the room route in place of Home
NavigationDone ==
    /\ homePhase = "mounted"
    /\ isPending
    /\ homePhase' = "navigated"
    /\ ev' = [op |-> "navigationDone", w |-> NoWidget, arg |-> ""]
    /\ roomUnchanged
    /\ UNCHANGED <<fullName, roomIdInput, isPending, pushes>>

HomeNext ==
    \/ HomeMount
    \/ \E v \in Names : NameChange(v)
    \/ \E v \in RoomIds : RoomIdChange(v)
    \/ handleConnect
    \/ \E u \in Uuids : handleCreateRoom(u)
    \/ NavigationDone

HomeSpec == HomeInit /\ [][HomeNext]_vars

(* ============================== claims ================================= *)
Alive == DOMAIN widgets
CredentialsInvalid ==
    \/ isNaN(parseInt(StringOf(appIdEnv)))
    \/ ~secretEnv.def
    \/ secretEnv.chars = <<>>
RoomIdAbsent == queryRoomID \in {Null, ""} /\ routeRoomid \in {Undefined, ""}

\* C1: with no CONNECTED in between, network-error callbacks start at most
\* MAX_RETRIES retry timers, whichever widget instance delivers them.
C1_RetriesBounded == scheduled <= MAX_RETRIES

\* C2: a network-error callback only displays the message; the widget is
\* released and initialized again when the RETRY_DELAY timer fires, not in
\* the callback's own step.
C2_ReleaseOnlyWhenTimerFires ==
    [][ev'.op = "onNetworkStatusError"
        => /\ Alive' = Alive
           /\ zegoRef' = zegoRef
           /\ created' = created]_vars

\* C3: while the room identifier is absent or empty no widget instance has
\* been created, joinRoom was never called, the widget reference is
\* untouched and the page shows the static error view.
C3_NoJoinWithoutRoomId ==
    RoomIdAbsent =>
        /\ created = 0
        /\ joinCalls = 0
        /\ zegoRef = NoWidget
        /\ Alive = {}
        /\ RoomView = "NoRoomIdView"
        /\ ~RetryShown
        /\ (phase = "mounted" => connectionError = NoRoomMsg)

C3_Witness ==
    /\ RoomIdAbsent
    /\ phase = "mounted"
    /\ ~CredentialsInvalid
    /\ connectionError = NoRoomMsg

C5_NavigationGated ==
    [][/\ ev'.op \in {"roomIdChange", "handleConnect", "handleCreateRoom"}
          => Len(fullName) >= 3
       /\ pushes' # pushes
          => /\ Len(fullName) >= 3
             /\ ~isPending
             /\ Len(pushes') = Len(pushes) + 1
             /\ ev'.op = "handleConnect"
                  => /\ roomIdInput # ""
                     /\ pushes'[Len(pushes')] = "/room/" \o roomIdInput]_vars

C5_Witness ==
    /\ ev.op = "handleConnect"
    /\ pushes = <<"/room/a/b">>
    /\ Len(fullName) = 3

\* C6: while a network, device, initialization-failure or maximum-retries
\* message is set on the mounted page the Retry button is shown; a press
\* leaves retryCount as it was, destroys the instance the reference held
\* and ends with the message cleared and one new instance in the reference
\* (or, when the credentials are invalid, with the failure message).
C6_ManualRetry ==
    /\ []((phase = "mounted"
            /\ connectionError \in {NetMsg, MaxMsg, FailedMsg}
                                     \cup {DeviceMsg(m) : m \in DeviceMessages})
          => RetryShown)
    /\ [][ev'.op = "retryClick"
          => /\ retryCount' = retryCount
             /\ zegoRef # NoWidget => zegoRef \notin Alive'
             /\ IF CredentialsInvalid
                THEN /\ connectionError' = FailedMsg
                     /\ Alive' = {}
                     /\ created' = created
                ELSE /\ connectionError' = Null
                     /\ created' = created + 1
                     /\ zegoRef' = created'
                     /\ Alive' = {zegoRef'}
                     /\ widgets'[zegoRef'].joined
                     /\ widgets'[zegoRef'].rc = retryCount]_vars

C6_Witness ==
    /\ ev.op = "retryClick"
    /\ retryCount > 0
    /\ created >= 3
    /\ zegoRef = created
    /\ connectionError = Null

\* C7: a CONNECTED report leaves the message cleared and retryCount 0, any
\* other report leaves both as they were; and the maximum-retries message is
\* only ever set after MAX_RETRIES retry timers were started since the last
\* CONNECTED.
C7_ConnectedResets ==
    [][/\ ev'.op = "onConnectionStateChanged"
          => IF ev'.arg = "CONNECTED"
             THEN connectionError' = Null /\ retryCount' = 0
             ELSE connectionError' = connectionError /\ retryCount' = retryCount
       /\ (ev'.op = "onNetworkStatusError" /\ connectionError' = MaxMsg)
          => scheduled >= MAX_RETRIES]_vars

C7_Witness ==
    /\ ev.op = "onConnectionStateChanged"
    /\ ev.arg = "CONNECTED"
    /\ retryCount = 0
    /\ netErrors >= 2
    /\ connectionError = Null

\* C8: at most one widget instance is alive, and the widget reference
\* points to it.
C8_OneInstance ==
    /\ Cardinality(Alive) <= 1
    /\ Alive # {} => zegoRef \in Alive
    /\ zegoRef # NoWidget => zegoRef \in Alive

C8_Witness ==
    /\ ev.op = "retryTimer"
    /\ created >= 3
    /\ Alive = {created}
    /\ clicks = 1

\* C9: once the room was left or the component unmounted, no widget
\* instance is alive.
C9_NoWidgetAfterLeave ==
    (phase = "unmounted" \/ redirectTimer) => Alive = {}

\* C10: an instance that reported CONNECTED is destroyed only by a retry
\* timer, the Retry button, leaving the room or unmounting.
C10_ConnectedStaysAlive ==
    [][\A w \in Alive :
          (/\ \/ widgets[w].connected
              \/ /\ ev'.op = "onConnectionStateChanged"
                 /\ ev'.arg = "CONNECTED"
                 /\ ev'.w = w
           /\ w \notin Alive')
          => ev'.op \in {"retryTimer", "retryClick", "onLeaveRoom", "unmount",
                         "redirect"}]_vars
====
